---- MODULE Spec2Model ----
(***************************************************************************)
(* Papayas Tierlist: the read API (src/api.py) and the PostgreSQL module   *)
(* (src/database.py), modelled as a state machine over the three tables    *)
(* jugadores, resultados and cooldowns.                                    *)
(*                                                                         *)
(* A nullable column or a Python value that may be None is a sequence of   *)
(* length 0 (NULL / None) or 1 (the value), so that NULL never compares    *)
(* equal to a value. A JSONB mapping is a function whose domain is the set *)
(* of its keys. The display columns (nick_mc, discord_name, es_premium)    *)
(* are copied through by every operation and take no part in a condition;  *)
(* they are left out of the rows.                                          *)
(***************************************************************************)
EXTENDS Integers, Sequences, FiniteSets, TLC

VARIABLES
    jugadores,   \* table jugadores: discord_id -> row
    resultados,  \* table resultados: the rows, in insertion order
    cooldowns,   \* table cooldowns: the set of rows
    now,         \* the store's clock, NOW()
    response,    \* what the last finished operation returned to its caller
    flows,       \* the recorder flows in progress, one per tester
    runs         \* how many recorder flows were started

vars == <<jugadores, resultados, cooldowns, now, response, flows, runs>>

----------------------------------------------------------------------------
\* Bounds of the model.

MaxPlayers == 2
MaxNeg == 12
MaxPts == 105

PlayerIds == 1..MaxPlayers

\* NULL / None, and a present value.
Null == << >>
Some(x) == <<x>>
IsNull(v) == v = Null
Val(v) == v[1]

\* Python's `x or 0`.
OrZero(v) == IF IsNull(v) \/ Val(v) = 0 THEN 0 ELSE Val(v)

PartialMaps(D, V) == UNION {[S -> V] : S \in SUBSET D}

----------------------------------------------------------------------------
\* get_rankings: the fixed list of modes, and one that is not in it.

valid_modes ==
    <<"overall", "Mace", "Sword", "UHC", "Crystal", "NethOP", "SMP", "Axe", "Dpot">>

ValidModeSet == {valid_modes[i] : i \in 1..Len(valid_modes)}

RequestModes == {"overall", "Sword", "Axe", "Bow"}

\* The ten labels of the overall ladder, best first.
TierLabels ==
    <<"HT1", "LT1", "HT2", "LT2", "HT3", "LT3", "HT4", "LT4", "HT5", "LT5">>

\* The ladder with a strict first comparison (the slip `> 90`).
OverallTierStrict(puntos_totales) ==
    IF puntos_totales > 90 THEN "HT1"
    ELSE IF puntos_totales >= 80 THEN "LT1"
    ELSE IF puntos_totales >= 70 THEN "HT2"
    ELSE IF puntos_totales >= 60 THEN "LT2"
    ELSE IF puntos_totales >= 50 THEN "HT3"
    ELSE IF puntos_totales >= 40 THEN "LT3"
    ELSE IF puntos_totales >= 30 THEN "HT4"
    ELSE IF puntos_totales >= 20 THEN "LT4"
    ELSE IF puntos_totales >= 10 THEN "HT5"
    ELSE "LT5"

\* The if/elif chain of get_rankings for mode 'overall', on an integer.
OverallTier(puntos_totales) ==
    IF puntos_totales >= 90 THEN "HT1"
    ELSE IF puntos_totales >= 80 THEN "LT1"
    ELSE IF puntos_totales >= 70 THEN "HT2"
    ELSE IF puntos_totales >= 60 THEN "LT2"
    ELSE IF puntos_totales >= 50 THEN "HT3"
    ELSE IF puntos_totales >= 40 THEN "LT3"
    ELSE IF puntos_totales >= 30 THEN "HT4"
    ELSE IF puntos_totales >= 20 THEN "LT4"
    ELSE IF puntos_totales >= 10 THEN "HT5"
    ELSE "LT5"

\* tier_actual of one row: the ladder for 'overall', the stored tier of the
\* mode otherwise, None when the row has no tier for the mode.
TierActual(row, mode) ==
    IF mode = "overall"
    THEN Some(OverallTier(Val(row.puntos_totales)))
    ELSE IF mode \in DOMAIN row.tier_por_modalidad
         THEN Some(row.tier_por_modalidad[mode])
         ELSE Null

\* `None >= 90` raises TypeError: the comparison of the ladder on a NULL total.
LadderRaises(row, mode) == mode = "overall" /\ IsNull(row.puntos_totales)

\* The per-mode view sent to the frontend.
Modalidades(row) ==
    [modo \in DOMAIN row.tier_por_modalidad |->
        [tier |-> row.tier_por_modalidad[modo],
         tier_display |-> row.tier_por_modalidad[modo],
         puntos |-> IF modo \in DOMAIN row.puntos_por_modalidad
                    THEN row.puntos_por_modalidad[modo]
                    ELSE 0]]

PlayerObj(row, mode) ==
    [id |-> row.discord_id,
     points |-> OrZero(row.puntos_totales),
     modalidades |-> Modalidades(row),
     tier |-> TierActual(row, mode)]

\* ORDER BY puntos_totales DESC, as PostgreSQL orders: NULLs first, then the
\* larger total first; the order of equal totals is the store's choice.
DescOrdered(a, b) == IsNull(a) \/ (~IsNull(b) /\ Val(a) >= Val(b))

SelectJugadoresOrdered ==
    LET ids == DOMAIN jugadores
        n == Cardinality(ids)
    IN {[i \in 1..n |-> jugadores[perm[i]]] :
           perm \in {p \in [1..n -> ids] :
                       /\ \A i, j \in 1..n : i # j => p[i] # p[j]
                       /\ \A i \in 1..n : i < n =>
                            DescOrdered(jugadores[p[i]].puntos_totales,
                                        jugadores[p[i + 1]].puntos_totales)}}

\* `if tier_actual:` takes None and the empty string as false.
Falsy(tier_actual) == IsNull(tier_actual) \/ Val(tier_actual) = ""

\* tiers_dict with player_obj put at the front of the list of its tier.
AddToTiersFront(tiers_dict, player_obj) ==
    IF Falsy(player_obj.tier)
    THEN tiers_dict
    ELSE LET t == Val(player_obj.tier)
         IN [k \in DOMAIN tiers_dict \cup {t} |->
                IF k = t
                THEN <<player_obj>>
                     \o (IF t \in DOMAIN tiers_dict THEN tiers_dict[t] ELSE << >>)
                ELSE tiers_dict[k]]

\* tiers_dict after appending player_obj under its tier.
AddToTiers(tiers_dict, player_obj) ==
    IF Falsy(player_obj.tier)
    THEN tiers_dict
    ELSE LET t == Val(player_obj.tier)
         IN [k \in DOMAIN tiers_dict \cup {t} |->
                IF k = t
                THEN (IF t \in DOMAIN tiers_dict THEN tiers_dict[t] ELSE << >>)
                     \o <<player_obj>>
                ELSE tiers_dict[k]]

\* The loop of get_rankings over the fetched rows, from row i on.
RECURSIVE RankingLoop(_, _, _, _, _)
RankingLoop(rows, mode, i, players_array, tiers_dict) ==
    IF i > Len(rows)
    THEN [players |-> players_array,
          tiers |-> tiers_dict,
          total_players |-> Len(players_array)]
    ELSE LET player_obj == PlayerObj(rows[i], mode)
         IN RankingLoop(rows, mode, i + 1,
                        Append(players_array, player_obj),
                        AddToTiers(tiers_dict, player_obj))

EmptyRankings == [players |-> << >>, tiers |-> << >>, total_players |-> 0]

\* Outcomes of opening a connection and running the statements of one call of
\* api.py.
StoreOutcomes == {"ok", "no_connection", "statement_error"}

\* The same for a function of database.py, which returns the same value when
\* get_db_connection() gives None and when a statement raises (and is rolled
\* back): the two failures are one outcome.
DbOutcomes == {"ok", "failed"}

\* get_rankings with the connection opened before the mode is looked at.
GetRankingsConnectFirst(mode, outcome, rows) ==
    IF outcome = "no_connection"
    THEN [op |-> "get_rankings", mode |-> mode, status |-> 200, store |-> outcome,
          body |-> EmptyRankings]
    ELSE IF mode \notin ValidModeSet
    THEN [op |-> "get_rankings", mode |-> mode, status |-> 400, store |-> outcome,
          body |-> [error |-> "Invalid mode", valid_modes |-> valid_modes]]
    ELSE IF outcome = "statement_error" \/ \E i \in 1..Len(rows) : LadderRaises(rows[i], mode)
    THEN [op |-> "get_rankings", mode |-> mode, status |-> 500, store |-> outcome,
          body |-> EmptyRankings]
    ELSE [op |-> "get_rankings", mode |-> mode, status |-> 200, store |-> outcome,
          body |-> RankingLoop(rows, mode, 1, << >>, << >>)]

GetRankingsResponse(mode, outcome, rows) ==
    IF mode \notin ValidModeSet
    THEN [op |-> "get_rankings", mode |-> mode, status |-> 400, store |-> "untouched",
          body |-> [error |-> "Invalid mode", valid_modes |-> valid_modes]]
    ELSE IF outcome = "no_connection"
    THEN [op |-> "get_rankings", mode |-> mode, status |-> 200, store |-> outcome,
          body |-> EmptyRankings]
    ELSE IF outcome = "statement_error" \/ \E i \in 1..Len(rows) : LadderRaises(rows[i], mode)
    THEN [op |-> "get_rankings", mode |-> mode, status |-> 500, store |-> outcome,
          body |-> EmptyRankings]
    ELSE [op |-> "get_rankings", mode |-> mode, status |-> 200, store |-> outcome,
          body |-> RankingLoop(rows, mode, 1, << >>, << >>)]

GetRankings(mode) ==
    /\ \E outcome \in StoreOutcomes : \E rows \in SelectJugadoresOrdered :
          response' = GetRankingsResponse(mode, outcome, rows)
    /\ UNCHANGED <<jugadores, resultados, cooldowns, now, flows, runs>>

\* get_player: SELECT COUNT(*) + 1 FROM jugadores WHERE puntos_totales > %s.
\* A comparison with NULL, on either side, is not true.
Position(puntos_totales) ==
    1 + Cardinality({id \in DOMAIN jugadores :
                        /\ ~IsNull(puntos_totales)
                        /\ ~IsNull(jugadores[id].puntos_totales)
                        /\ Val(jugadores[id].puntos_totales) > Val(puntos_totales)})

\* get_player: the tiers dict, one entry per key of tier_por_modalidad.
PlayerTiers(row) ==
    [modo \in DOMAIN row.tier_por_modalidad |->
        [tier |-> row.tier_por_modalidad[modo],
         puntos |-> IF modo \in DOMAIN row.puntos_por_modalidad
                    THEN row.puntos_por_modalidad[modo]
                    ELSE 0]]

GetPlayerResponse(discord_id, outcome) ==
    IF outcome = "no_connection"
    THEN [op |-> "get_player", discord_id |-> discord_id, status |-> 500, store |-> outcome,
          body |-> [error |-> "Database connection failed"]]
    ELSE IF outcome = "statement_error"
    THEN [op |-> "get_player", discord_id |-> discord_id, status |-> 500, store |-> outcome,
          body |-> [error |-> "statement_error"]]
    ELSE IF discord_id \notin DOMAIN jugadores
    THEN [op |-> "get_player", discord_id |-> discord_id, status |-> 404, store |-> outcome,
          body |-> [error |-> "Player not found"]]
    ELSE [op |-> "get_player", discord_id |-> discord_id, status |-> 200, store |-> outcome,
          body |-> [id |-> discord_id,
                    puntos_totales |-> OrZero(jugadores[discord_id].puntos_totales),
                    tiers |-> PlayerTiers(jugadores[discord_id]),
                    position |-> Position(jugadores[discord_id].puntos_totales)]]

GetPlayer(discord_id) ==
    /\ \E outcome \in StoreOutcomes :
          response' = GetPlayerResponse(discord_id, outcome)
    /\ UNCHANGED <<jugadores, resultados, cooldowns, now, flows, runs>>

----------------------------------------------------------------------------
\* save_or_update_jugador, called on its own: one connection, one transaction.

RowOf(jugador_data) ==
    [discord_id |-> jugador_data.discord_id,
     tier_por_modalidad |-> jugador_data.tier_por_modalidad,
     puntos_por_modalidad |-> jugador_data.puntos_por_modalidad,
     puntos_totales |-> jugador_data.puntos_totales]

Upsert(table, jugador_data) ==
    [id \in DOMAIN table \cup {jugador_data.discord_id} |->
        IF id = jugador_data.discord_id THEN RowOf(jugador_data) ELSE table[id]]

SaveOrUpdateJugador(jugador_data) ==
    /\ \E outcome \in DbOutcomes :
          IF outcome = "ok"
          THEN /\ jugadores' = Upsert(jugadores, jugador_data)
               /\ response' = [op |-> "save_or_update_jugador", ret |-> TRUE]
          ELSE /\ jugadores' = jugadores
               /\ response' = [op |-> "save_or_update_jugador", ret |-> FALSE]
    /\ UNCHANGED <<resultados, cooldowns, now, flows, runs>>

NoResponse == [op |-> "none"]
NoFlows == << >>

----------------------------------------------------------------------------
\* The overall ladder: two players with integer totals, ranked.

LadderTotals == (0 - MaxNeg)..MaxPts

InitTier ==
    /\ \E p1, p2 \in LadderTotals :
          jugadores = [id \in {1, 2} |->
                         [discord_id |-> id,
                          tier_por_modalidad |-> << >>,
                          puntos_por_modalidad |-> << >>,
                          puntos_totales |-> Some(IF id = 1 THEN p1 ELSE p2)]]
    /\ resultados = << >>
    /\ cooldowns = {}
    /\ now = 0
    /\ response = NoResponse
    /\ flows = NoFlows
    /\ runs = 0

NextTier == GetRankings("overall")

SpecTier == InitTier /\ [][NextTier]_vars

\* C6: for every integer total p the overall tier of a ranked player is exactly
\* one of the ten labels, the one of the band p lies in (inclusive lower bounds
\* 90, 80, ..., 10, and LT5 below 10, negative totals included), and a larger
\* total never gets a lower-ranked tier.
C6_TierRank(t) == CHOOSE i \in 1..Len(TierLabels) : TierLabels[i] = t

C6_Band(p) == IF p >= 90 THEN 1 ELSE IF p < 10 THEN 10 ELSE 10 - (p \div 10)

C6_Ranked ==
    /\ response.op = "get_rankings"
    /\ response.mode = "overall"
    /\ response.status = 200
    /\ response.store = "ok"

C6_LadderTotalMonotonic ==
    C6_Ranked =>
        LET players == response.body.players
        IN /\ Len(players) = Cardinality(DOMAIN jugadores)
           /\ \A i \in 1..Len(players) :
                LET p == Val(jugadores[players[i].id].puntos_totales)
                    t == players[i].tier
                IN /\ ~IsNull(t)
                   /\ Cardinality({k \in 1..Len(TierLabels) : TierLabels[k] = Val(t)}) = 1
                   /\ Val(t) = TierLabels[C6_Band(p)]
                   /\ (p = 90 => Val(t) = "HT1")
                   /\ (p = 89 => Val(t) = "LT1")
                   /\ (p = 10 => Val(t) = "HT5")
                   /\ (p = 9 => Val(t) = "LT5")
                   /\ (p = 0 - 5 => Val(t) = "LT5")
           /\ \A i, j \in 1..Len(players) :
                Val(jugadores[players[i].id].puntos_totales)
                    >= Val(jugadores[players[j].id].puntos_totales)
                  => C6_TierRank(Val(players[i].tier)) <= C6_TierRank(Val(players[j].tier))

C6_Witness ==
    /\ C6_Ranked
    /\ \E i, j \in 1..Len(response.body.players) :
          /\ jugadores[response.body.players[i].id].puntos_totales = Some(90)
          /\ response.body.players[i].tier = Some("HT1")
          /\ jugadores[response.body.players[j].id].puntos_totales = Some(0 - 5)
          /\ response.body.players[j].tier = Some("LT5")

----------------------------------------------------------------------------
\* The players table written by save_or_update_jugador and read by get_rankings.

StoreModes == {"Sword"}
StoreTiers == {"HT3", ""}
StorePoints == {20}
StoreTotals == {Null, Some(5), Some(30)}

JugadorDatas ==
    [discord_id : PlayerIds,
     tier_por_modalidad : PartialMaps(StoreModes, StoreTiers),
     puntos_por_modalidad : PartialMaps(StoreModes, StorePoints),
     puntos_totales : StoreTotals]

InitStore ==
    /\ jugadores = << >>
    /\ resultados = << >>
    /\ cooldowns = {}
    /\ now = 0
    /\ response = NoResponse
    /\ flows = NoFlows
    /\ runs = 0

NextStore ==
    \/ \E jugador_data \in JugadorDatas : SaveOrUpdateJugador(jugador_data)
    \/ \E mode \in RequestModes : GetRankings(mode)
    \/ \E discord_id \in PlayerIds : GetPlayer(discord_id)

SpecStore == InitStore /\ [][NextStore]_vars

\* A ranking computed from the rows of the current table: the mode is valid,
\* the connection opened and the SELECT ran.
RankedFromStore(mode) ==
    /\ response.op = "get_rankings"
    /\ response.mode = mode
    /\ response.store = "ok"

EntryIds(players) == {players[i].id : i \in 1..Len(players)}

\* C12: get_rankings answers a mode outside the nine valid ones with 400 and
\* the list of valid modes, without opening a connection or running a query;
\* a valid mode is never answered with 400.
C12_FixedModes ==
    {"overall", "Mace", "Sword", "UHC", "Crystal", "NethOP", "SMP", "Axe", "Dpot"}

C12_UnknownModeRejected ==
    response.op = "get_rankings" =>
        IF response.mode \in C12_FixedModes
        THEN response.status # 400 /\ response.store # "untouched"
        ELSE /\ response.status = 400
             /\ response.store = "untouched"
             /\ response.body.error = "Invalid mode"
             /\ {response.body.valid_modes[i] : i \in 1..Len(response.body.valid_modes)}
                   = C12_FixedModes

C12_Witness ==
    /\ response.op = "get_rankings"
    /\ response.mode = "Bow"
    /\ response.status = 400
    /\ DOMAIN jugadores # {}

\* C14: a read that meets an unavailable store or a failing query answers
\* with an empty/default body and no error status.
C14_ReadsDegrade ==
    (/\ response.op \in {"get_rankings", "get_player"}
     /\ response.store \in {"no_connection", "statement_error"})
    => /\ response.status = 200
       /\ "error" \notin DOMAIN response.body

\* C18: the position get_player returns is 1 plus the number of stored players
\* whose total is strictly greater than the total get_player reports for the
\* player, and lies between 1 and the number of players.
C18_Total(id) == OrZero(jugadores[id].puntos_totales)

C18_PositionCountsGreaterTotals ==
    (response.op = "get_player" /\ response.status = 200)
    => /\ response.body.position
             = 1 + Cardinality({id \in DOMAIN jugadores :
                                   C18_Total(id) > response.body.puntos_totales})
       /\ response.body.position \in 1..Cardinality(DOMAIN jugadores)

\* C21: in every get_rankings response with status 200, total_players is the
\* number of entries; a bucket holds only entries whose tier is the bucket's
\* label; an entry with a tier is in exactly one bucket and an entry with no
\* tier (None, or the empty label) in none, so the bucket sizes sum to the
\* number of entries with a tier; and a bucket lists its entries in the order
\* they have among the entries.
C21_HasTier(entry) == entry.tier # Null /\ entry.tier # Some("")

C21_WithTier(players, label) ==
    LET Labelled(entry) == entry.tier = Some(label)
    IN SelectSeq(players, Labelled)

RECURSIVE C21_SumSizes(_)
C21_SumSizes(tiers) ==
    IF DOMAIN tiers = {}
    THEN 0
    ELSE LET k == CHOOSE label \in DOMAIN tiers : TRUE
         IN Len(tiers[k]) + C21_SumSizes([l \in DOMAIN tiers \ {k} |-> tiers[l]])

C1_MemberIffTierForMode ==
    \A mode \in ValidModeSet \ {"overall"} :
        RankedFromStore(mode) =>
            \A id \in DOMAIN jugadores :
                id \in EntryIds(response.body.players)
                    <=> mode \in DOMAIN jugadores[id].tier_por_modalidad

\* C2: the entries of get_rankings(M) are in descending order of the points of
\* mode M (of the total for 'overall'): no entry has fewer than the next one.
\* Stated for tables whose totals are integers, no two equal, where the order
\* of the rows the SELECT returns is fixed.
C2_TotalsDistinct ==
    \A id1, id2 \in DOMAIN jugadores :
        /\ ~IsNull(jugadores[id1].puntos_totales)
        /\ id1 # id2 => jugadores[id1].puntos_totales # jugadores[id2].puntos_totales

C2_ModePoints(player_obj, mode) ==
    IF mode = "overall" THEN player_obj.points ELSE player_obj.modalidades[mode].puntos

C2_SortedByModePoints ==
    \A mode \in ValidModeSet :
        (RankedFromStore(mode) /\ response.status = 200 /\ C2_TotalsDistinct) =>
            LET players == response.body.players
            IN \A i \in 1..Len(players) :
                  (/\ i < Len(players)
                   /\ mode # "overall" => /\ mode \in DOMAIN players[i].modalidades
                                          /\ mode \in DOMAIN players[i + 1].modalidades)
                  => C2_ModePoints(players[i], mode) >= C2_ModePoints(players[i + 1], mode)

RECURSIVE SumPoints(_)
SumPoints(puntos_por_modalidad) ==
    IF DOMAIN puntos_por_modalidad = {}
    THEN 0
    ELSE LET m == CHOOSE k \in DOMAIN puntos_por_modalidad : TRUE
         IN puntos_por_modalidad[m]
            + SumPoints([k \in DOMAIN puntos_por_modalidad \ {m} |-> puntos_por_modalidad[k]])

\* C3: every stored player has total_points equal to the sum of its per-mode
\* points, whatever total the caller of save_or_update_jugador supplied (stated
\* here for the stored totals that are integers).
C3_TotalIsSumOfModePoints ==
    \A id \in DOMAIN jugadores :
        ~IsNull(jugadores[id].puntos_totales) =>
            Val(jugadores[id].puntos_totales) = SumPoints(jugadores[id].puntos_por_modalidad)

\* C7: a player whose stored total is NULL counts as 0 points: the overall
\* ranking is a normal response in which that player has tier LT5.
C7_NullTotalRanksAsLT5 ==
    RankedFromStore("overall") =>
        \A id \in DOMAIN jugadores :
            IsNull(jugadores[id].puntos_totales) =>
                /\ response.status = 200
                /\ \E i \in 1..Len(response.body.players) :
                      /\ response.body.players[i].id = id
                      /\ response.body.players[i].tier = Some("LT5")

\* C8: the overall ranking holds every stored player exactly once, each with a
\* tier, and each in exactly one tier bucket.
C8_OverallHasEveryPlayerOnce ==
    RankedFromStore("overall") =>
        LET players == response.body.players
            tiers == response.body.tiers
        IN \A id \in DOMAIN jugadores :
              /\ Cardinality({i \in 1..Len(players) : players[i].id = id}) = 1
              /\ \A i \in 1..Len(players) : players[i].id = id => ~IsNull(players[i].tier)
              /\ Cardinality({<<t, k>> \in UNION {{t} \X (1..Len(tiers[t])) : t \in DOMAIN tiers} :
                                tiers[t][k].id = id}) = 1

----------------------------------------------------------------------------
\* The cooldowns table: save_cooldown, get_active_cooldowns,
\* delete_expired_cooldowns, and the passing of time.

MaxTime == 2

CooldownPairs == {<<1, "Sword">>, <<1, "Axe">>, <<2, "Sword">>}
StartDates == {Null, Some(0)}
EndDates == {Null} \cup {Some(t) : t \in 0..MaxTime}

KeyOf(row) == <<row.jugador_id, row.modalidad>>

CooldownRow(jugador_id, modalidad, start_date, end_date) ==
    [jugador_id |-> jugador_id, modalidad |-> modalidad,
     start_date |-> start_date, end_date |-> end_date]

\* The statement without its ON CONFLICT clause and without the UNIQUE
\* constraint: a plain INSERT.
SaveCooldownAppend(table, jugador_id, modalidad, start_date, end_date) ==
    table \cup {CooldownRow(jugador_id, modalidad, start_date, end_date)}

\* INSERT ... ON CONFLICT (jugador_id, modalidad) DO UPDATE SET start_date,
\* end_date, under UNIQUE(jugador_id, modalidad).
SaveCooldownStmt(table, jugador_id, modalidad, start_date, end_date) ==
    IF \E row \in table : KeyOf(row) = <<jugador_id, modalidad>>
    THEN {IF KeyOf(row) = <<jugador_id, modalidad>>
          THEN [row EXCEPT !.start_date = start_date, !.end_date = end_date]
          ELSE row : row \in table}
    ELSE table \cup {CooldownRow(jugador_id, modalidad, start_date, end_date)}

SaveCooldown(jugador_id, modalidad, start_date, end_date) ==
    /\ \E outcome \in DbOutcomes :
          IF outcome = "ok"
          THEN /\ cooldowns' =
                     SaveCooldownStmt(cooldowns, jugador_id, modalidad, start_date, end_date)
               /\ response' =
                     [op |-> "save_cooldown",
                      args |-> <<jugador_id, modalidad, start_date, end_date>>,
                      conflict |-> \E row \in cooldowns : KeyOf(row) = <<jugador_id, modalidad>>,
                      ret |-> TRUE]
          ELSE /\ cooldowns' = cooldowns
               /\ response' = [op |-> "save_cooldown", ret |-> FALSE]
    /\ UNCHANGED <<jugadores, resultados, now, flows, runs>>

\* datetime.isoformat(): the text of the timestamp, None for NULL.
IsoFormat(date) == IF IsNull(date) THEN Null ELSE Some([iso |-> Val(date)])

\* The WHERE clause with an inclusive comparison: end_date >= NOW().
IsActiveInclusive(row, t) == ~IsNull(row.end_date) /\ Val(row.end_date) >= t

\* WHERE end_date > NOW(): a comparison with NULL is not true.
IsActive(row, t) == ~IsNull(row.end_date) /\ Val(row.end_date) > t

\* The WHERE clause of the sweep with a strict comparison: end_date < NOW().
IsExpiredStrict(row, t) == ~IsNull(row.end_date) /\ Val(row.end_date) < t

\* WHERE end_date <= NOW().
IsExpired(row, t) == ~IsNull(row.end_date) /\ Val(row.end_date) <= t

\* The nested dict built from the fetched rows.
CooldownsDict(rows) ==
    [jugador_id \in {row.jugador_id : row \in rows} |->
        [modalidad \in {row.modalidad : row \in {r \in rows : r.jugador_id = jugador_id}} |->
            LET row == CHOOSE r \in rows : KeyOf(r) = <<jugador_id, modalidad>>
            IN [start_date |-> IsoFormat(row.start_date),
                end_date |-> IsoFormat(row.end_date)]]]

GetActiveCooldowns ==
    /\ \E outcome \in DbOutcomes :
          response' =
              [op |-> "get_active_cooldowns", ok |-> outcome = "ok", at |-> now,
               ret |-> IF outcome = "ok"
                       THEN CooldownsDict({row \in cooldowns : IsActive(row, now)})
                       ELSE << >>]
    /\ UNCHANGED <<jugadores, resultados, cooldowns, now, flows, runs>>

\* What the sweep before this one returned, when this call comes right after
\* a successful sweep at the same instant; None otherwise.
SweepJustBefore ==
    IF /\ response.op = "delete_expired_cooldowns"
       /\ response.ok
       /\ response.at = now
    THEN Some(response.ret)
    ELSE Null

DeleteExpiredCooldowns ==
    /\ \E outcome \in DbOutcomes :
          IF outcome = "ok"
          THEN /\ cooldowns' = {row \in cooldowns : ~IsExpired(row, now)}
               /\ response' =
                     [op |-> "delete_expired_cooldowns", ok |-> outcome = "ok", at |-> now,
                      after |-> SweepJustBefore,
                      ret |-> Cardinality({row \in cooldowns : IsExpired(row, now)})]
          ELSE /\ cooldowns' = cooldowns
               /\ response' =
                     [op |-> "delete_expired_cooldowns", ok |-> outcome = "ok", at |-> now,
                      after |-> SweepJustBefore,
                      ret |-> 0]
    /\ UNCHANGED <<jugadores, resultados, now, flows, runs>>

\* NOW() moves on between two calls.
Tick ==
    /\ now < MaxTime
    /\ now' = now + 1
    /\ UNCHANGED <<jugadores, resultados, cooldowns, response, flows, runs>>

InitCooldown ==
    /\ jugadores = << >>
    /\ resultados = << >>
    /\ cooldowns = {}
    /\ now = 0
    /\ response = NoResponse
    /\ flows = NoFlows
    /\ runs = 0

NextCooldown ==
    \/ \E key \in CooldownPairs : \E start_date \in StartDates : \E end_date \in EndDates :
          SaveCooldown(key[1], key[2], start_date, end_date)
    \/ GetActiveCooldowns
    \/ DeleteExpiredCooldowns
    \/ Tick

SpecCooldown == InitCooldown /\ [][NextCooldown]_vars

\* C15: a sweep that fails returns a value that no successful sweep returns
\* (a successful sweep returns the number of rows it removed).
C15_FailedWriteDistinguishable ==
    (response.op = "delete_expired_cooldowns" /\ ~response.ok)
    => response.ret \notin Nat

\* C19: at every instant each stored cooldown row is either active or expired,
\* never both and never neither.
C19_ActiveExpiredPartition ==
    \A row \in cooldowns : IsActive(row, now) # IsExpired(row, now)

\* C9: there is at most one cooldown row per (player, mode); a successful
\* save_cooldown leaves exactly one row for its pair, holding the start and end
\* it was given, and the rows of every other pair as they were; no other
\* operation adds or changes a row.
C9_OneRowPerPair ==
    \A r1, r2 \in cooldowns : KeyOf(r1) = KeyOf(r2) => r1 = r2

C9_SaveStep ==
    /\ (response'.op = "save_cooldown" /\ response'.ret) =>
          LET a == response'.args
          IN /\ {row \in cooldowns' : KeyOf(row) = <<a[1], a[2]>>}
                  = {CooldownRow(a[1], a[2], a[3], a[4])}
             /\ {row \in cooldowns' : KeyOf(row) # <<a[1], a[2]>>}
                  = {row \in cooldowns : KeyOf(row) # <<a[1], a[2]>>}
    /\ (response'.op # "save_cooldown") => cooldowns' \subseteq cooldowns

C9_CooldownUpsertByKey == [](C9_OneRowPerPair) /\ [][C9_SaveStep]_vars

C9_Witness ==
    /\ response.op = "save_cooldown"
    /\ response.ret
    /\ response.conflict
    /\ Cardinality(cooldowns) = Cardinality(CooldownPairs)
    /\ CooldownRow(response.args[1], response.args[2], response.args[3], response.args[4])
          \in cooldowns

\* C11: a successful delete_expired_cooldowns removes exactly the rows whose end
\* is at or before the time of the call and returns how many they were; a
\* second sweep right after a successful one, at the same instant, removes
\* nothing and returns 0.
C11_Expired(table, t) == {row \in table : row.end_date \in {Some(u) : u \in 0..t}}

C11_SweepStep ==
    (/\ response'.op = "delete_expired_cooldowns"
     /\ response'.ok
     /\ now' = now)
    => /\ cooldowns' = cooldowns \ C11_Expired(cooldowns, now)
       /\ response'.ret = Cardinality(C11_Expired(cooldowns, now))
       /\ (/\ response.op = "delete_expired_cooldowns"
           /\ response.ok
           /\ response.at = now)
          => /\ response'.ret = 0
             /\ cooldowns' = cooldowns

C11_SweepExactIdempotent == [][C11_SweepStep]_vars

C11_Witness ==
    /\ response.op = "delete_expired_cooldowns"
    /\ response.ok
    /\ response.after = Some(2)
    /\ response.ret = 0
    /\ \E row \in cooldowns : row.end_date = Some(response.at + 1)

\* C10: a get_active_cooldowns that follows a successful save_cooldown(p, m, s, e),
\* with no write in between, holds p -> m -> {s, e} if and only if e is strictly
\* after the time of the query; a row whose end is that very time is not active.
C10_Entry(ret, a) ==
    /\ a[1] \in DOMAIN ret
    /\ a[2] \in DOMAIN ret[a[1]]
    /\ ret[a[1]][a[2]] = [start_date |-> IsoFormat(a[3]), end_date |-> IsoFormat(a[4])]

C10_SaveThenGet ==
    (/\ response.op = "save_cooldown"
     /\ response.ret
     /\ response'.op = "get_active_cooldowns"
     /\ response'.ok)
    => (C10_Entry(response'.ret, response.args)
          <=> (~IsNull(response.args[4]) /\ Val(response.args[4]) > response'.at))

C10_CooldownRoundTrip == [][C10_SaveThenGet]_vars

C10_Witness ==
    /\ response.op = "get_active_cooldowns"
    /\ response.ok
    /\ \E r1, r2 \in cooldowns :
          /\ r1.end_date = Some(response.at)
          /\ r1.jugador_id \notin DOMAIN response.ret
          /\ r2.end_date = Some(response.at + 1)
          /\ C10_Entry(response.ret,
                       <<r2.jugador_id, r2.modalidad, r2.start_date, r2.end_date>>)

----------------------------------------------------------------------------
\* Recording a result. The recorder itself is the write path's caller: it
\* calls add_resultado, reads the player with get_jugador_by_id, sets the
\* mode's tier and points, recomputes the total and calls
\* save_or_update_jugador. Each call opens its own connection and commits on
\* its own; a statement with its commit is one step, and the flows of two
\* testers interleave between steps.

MaxRuns == 2

Testers == {"t1", "t2"}
RecordPlayers == {1}
RecordModes == {"Sword", "Axe"}
RecordOutcomes == {[tier_nuevo |-> "LT4", puntos_obtenidos |-> 20],
                   [tier_nuevo |-> "HT5", puntos_obtenidos |-> 15]}

ResultadoDatas ==
    [jugador_id : RecordPlayers, tester_id : Testers, modalidad : RecordModes,
     outcome : RecordOutcomes]

IdleFlow == [pc |-> "idle"]

\* add_resultado: INSERT INTO resultados ... ; conn.commit().
AddResultadoStmt(table, id, resultado_data) ==
    Append(table, [id |-> id,
                   jugador_id |-> resultado_data.jugador_id,
                   tester_id |-> resultado_data.tester_id,
                   modalidad |-> resultado_data.modalidad,
                   tier_nuevo |-> resultado_data.outcome.tier_nuevo,
                   puntos_obtenidos |-> resultado_data.outcome.puntos_obtenidos])

\* get_jugador_by_id without the two JSONB columns in its dict.
GetJugadorByIdNoMaps(discord_id, outcome) ==
    IF outcome = "ok" /\ discord_id \in DOMAIN jugadores
    THEN Some([discord_id |-> discord_id,
               tier_por_modalidad |-> << >>,
               puntos_por_modalidad |-> << >>,
               puntos_totales |-> Some(OrZero(jugadores[discord_id].puntos_totales))])
    ELSE Null

\* get_jugador_by_id: the row as a dict, None when there is no row and also
\* when the connection or the query fails.
GetJugadorById(discord_id, outcome) ==
    IF outcome = "ok" /\ discord_id \in DOMAIN jugadores
    THEN Some([discord_id |-> discord_id,
               tier_por_modalidad |-> jugadores[discord_id].tier_por_modalidad,
               puntos_por_modalidad |-> jugadores[discord_id].puntos_por_modalidad,
               puntos_totales |-> Some(OrZero(jugadores[discord_id].puntos_totales))])
    ELSE Null

SetKey(map, key, value) ==
    [k \in DOMAIN map \cup {key} |-> IF k = key THEN value ELSE map[k]]

\* The recorder's update of the player it read (a new player when it read None).
RecordedJugador(read, resultado_data) ==
    LET old == IF IsNull(read)
               THEN [discord_id |-> resultado_data.jugador_id,
                     tier_por_modalidad |-> << >>,
                     puntos_por_modalidad |-> << >>,
                     puntos_totales |-> Some(0)]
               ELSE Val(read)
        puntos == SetKey(old.puntos_por_modalidad, resultado_data.modalidad,
                         resultado_data.outcome.puntos_obtenidos)
    IN [discord_id |-> old.discord_id,
        tier_por_modalidad |-> SetKey(old.tier_por_modalidad, resultado_data.modalidad,
                                      resultado_data.outcome.tier_nuevo),
        puntos_por_modalidad |-> puntos,
        puntos_totales |-> Some(SumPoints(puntos))]

\* A flow between its first store call and its return.
InProgress(flow) == flow.pc \in {"get", "select", "write"}

\* The flows once tester t starts the flow `started`: a flow that is still in
\* progress no longer runs alone.
Overlapped(t, started) ==
    [u \in Testers |->
        IF u = t THEN started
        ELSE IF InProgress(flows[u]) THEN [flows[u] EXCEPT !.alone = FALSE]
        ELSE flows[u]]

\* record_result starts: the TestResult is inserted and committed.
RecordStart(t) ==
    /\ flows[t].pc \in {"idle", "done"}
    /\ runs < MaxRuns
    /\ runs' = runs + 1
    /\ \E resultado_data \in ResultadoDatas : \E outcome \in DbOutcomes :
          /\ resultado_data.tester_id = t
          /\ IF outcome = "ok"
             THEN /\ resultados' = AddResultadoStmt(resultados, runs + 1, resultado_data)
                  /\ flows' = Overlapped(t,
                                 [pc |-> "get", run |-> runs + 1, data |-> resultado_data,
                                  alone |-> \A u \in Testers \ {t} : ~InProgress(flows[u]),
                                  added |-> TRUE, read_ok |-> FALSE, saved |-> FALSE])
             ELSE /\ resultados' = resultados
                  /\ flows' = Overlapped(t,
                                 [pc |-> "done", run |-> runs + 1, data |-> resultado_data,
                                  alone |-> \A u \in Testers \ {t} : ~InProgress(flows[u]),
                                  added |-> FALSE, read_ok |-> FALSE, saved |-> FALSE,
                                  ret |-> FALSE, error |-> "store"])
    /\ UNCHANGED <<jugadores, cooldowns, now, response>>

\* The recorder reads the player and prepares the jugador_data to save.
RecordGet(t) ==
    /\ flows[t].pc = "get"
    /\ \E outcome \in DbOutcomes :
          flows' = [flows EXCEPT ![t] =
                      [pc |-> "select", run |-> flows[t].run, data |-> flows[t].data,
                       alone |-> flows[t].alone, added |-> TRUE, read_ok |-> outcome = "ok", saved |-> FALSE,
                       jugador_data |->
                           RecordedJugador(GetJugadorById(flows[t].data.jugador_id, outcome),
                                           flows[t].data)]]
    /\ UNCHANGED <<jugadores, resultados, cooldowns, now, response, runs>>

\* save_or_update_jugador, first statement: SELECT discord_id ... ; fetchone().
RecordSaveSelect(t) ==
    /\ flows[t].pc = "select"
    /\ \E outcome \in DbOutcomes :
          IF outcome = "ok"
          THEN flows' = [flows EXCEPT ![t] =
                           [pc |-> "write", run |-> flows[t].run, data |-> flows[t].data,
                            alone |-> flows[t].alone, added |-> TRUE, read_ok |-> flows[t].read_ok, saved |-> FALSE,
                            jugador_data |-> flows[t].jugador_data,
                            exists |-> flows[t].jugador_data.discord_id \in DOMAIN jugadores]]
          ELSE flows' = [flows EXCEPT ![t] =
                           [pc |-> "done", run |-> flows[t].run, data |-> flows[t].data,
                            alone |-> flows[t].alone,
                            added |-> TRUE, read_ok |-> flows[t].read_ok, saved |-> FALSE,
                            ret |-> FALSE, error |-> "store"]]
    /\ UNCHANGED <<jugadores, resultados, cooldowns, now, response, runs>>

\* Second statement and commit: UPDATE when the SELECT found the row, INSERT
\* otherwise; an INSERT of a discord_id that is there by now violates the
\* primary key, and the call rolls back and returns False.
SaveWriteResult(table, jugador_data, exists, outcome) ==
    IF outcome # "ok" THEN [table |-> table, ret |-> FALSE, error |-> "store"]
    ELSE IF exists
    THEN [table |-> IF jugador_data.discord_id \in DOMAIN table
                    THEN Upsert(table, jugador_data)
                    ELSE table,
          ret |-> TRUE, error |-> "none"]
    ELSE IF jugador_data.discord_id \in DOMAIN table
    THEN [table |-> table, ret |-> FALSE, error |-> "unique_violation"]
    ELSE [table |-> Upsert(table, jugador_data), ret |-> TRUE, error |-> "none"]

RecordSaveWrite(t) ==
    /\ flows[t].pc = "write"
    /\ \E outcome \in DbOutcomes :
          LET res == SaveWriteResult(jugadores, flows[t].jugador_data, flows[t].exists, outcome)
          IN /\ jugadores' = res.table
             /\ flows' = [flows EXCEPT ![t] =
                            [pc |-> "done", run |-> flows[t].run, data |-> flows[t].data,
                             alone |-> flows[t].alone,
                             added |-> TRUE, read_ok |-> flows[t].read_ok,
                             saved |-> res.ret, ret |-> res.ret, error |-> res.error]]
    /\ UNCHANGED <<resultados, cooldowns, now, response, runs>>

InitRecord ==
    /\ jugadores = << >>
    /\ resultados = << >>
    /\ cooldowns = {}
    /\ now = 0
    /\ response = NoResponse
    /\ flows = [t \in Testers |-> IdleFlow]
    /\ runs = 0

NextRecord ==
    \E t \in Testers :
        \/ RecordStart(t)
        \/ RecordGet(t)
        \/ RecordSaveSelect(t)
        \/ RecordSaveWrite(t)

SpecRecord == InitRecord /\ [][NextRecord]_vars

RowOfRun(run) == {i \in 1..Len(resultados) : resultados[i].id = run}

\* C4: recording a result is atomic: once a record_result call has ended, its
\* TestResult row is durable if and only if its Player update was committed; a
\* failed Player update never leaves the TestResult as the only effect.
C4_RecordIsAtomic ==
    \A t \in Testers :
        flows[t].pc = "done" => (RowOfRun(flows[t].run) # {} <=> flows[t].saved)

\* C5: no lost update: when two recorder flows for the same player in two
\* different modes both end in success, every store call of theirs having
\* succeeded, the player holds both modes' tier and points and their sum as total.
C5_Succeeded(t) ==
    /\ flows[t].pc = "done"
    /\ flows[t].ret
    /\ flows[t].read_ok

C5_Holds(row, data) ==
    /\ data.modalidad \in DOMAIN row.tier_por_modalidad
    /\ row.tier_por_modalidad[data.modalidad] = data.outcome.tier_nuevo
    /\ data.modalidad \in DOMAIN row.puntos_por_modalidad
    /\ row.puntos_por_modalidad[data.modalidad] = data.outcome.puntos_obtenidos

C5_NoLostUpdate ==
    \A t1, t2 \in Testers :
        (/\ t1 # t2
         /\ C5_Succeeded(t1)
         /\ C5_Succeeded(t2)
         /\ flows[t1].data.jugador_id = flows[t2].data.jugador_id
         /\ flows[t1].data.modalidad # flows[t2].data.modalidad)
        => LET row == jugadores[flows[t1].data.jugador_id]
           IN /\ C5_Holds(row, flows[t1].data)
              /\ C5_Holds(row, flows[t2].data)
              /\ row.puntos_totales = Some(flows[t1].data.outcome.puntos_obtenidos
                                           + flows[t2].data.outcome.puntos_obtenidos)

\* C13: a recording that runs alone, with every store call of its own
\* succeeding, sets the tier and points of its mode and leaves the player's
\* entries of every other mode as they were, the total being the sum; so Sword
\* (20 points) and then Axe (15 points) for a fresh player leave both entries
\* and a total of 35.
C13_Entry(map, mode) == IF mode \in DOMAIN map THEN Some(map[mode]) ELSE Null

C13_Before(id) ==
    IF id \in DOMAIN jugadores
    THEN jugadores[id]
    ELSE [discord_id |-> id, tier_por_modalidad |-> << >>,
          puntos_por_modalidad |-> << >>, puntos_totales |-> Some(0)]

C13_WriteStep ==
    \A t \in Testers :
        (/\ flows[t].pc = "write"
         /\ flows'[t].pc = "done"
         /\ flows'[t].saved
         /\ flows[t].alone
         /\ flows[t].read_ok)
        => LET data == flows[t].data
               old == C13_Before(data.jugador_id)
               new == jugadores'[data.jugador_id]
           IN /\ C13_Entry(new.tier_por_modalidad, data.modalidad)
                    = Some(data.outcome.tier_nuevo)
              /\ C13_Entry(new.puntos_por_modalidad, data.modalidad)
                    = Some(data.outcome.puntos_obtenidos)
              /\ \A mode \in ValidModeSet \ {data.modalidad} :
                    /\ C13_Entry(new.tier_por_modalidad, mode)
                          = C13_Entry(old.tier_por_modalidad, mode)
                    /\ C13_Entry(new.puntos_por_modalidad, mode)
                          = C13_Entry(old.puntos_por_modalidad, mode)
              /\ new.puntos_totales = Some(SumPoints(new.puntos_por_modalidad))
              /\ \A id \in DOMAIN jugadores \ {data.jugador_id} :
                    jugadores'[id] = jugadores[id]

C13_Recorded(t, run, mode, puntos) ==
    /\ flows[t].pc = "done"
    /\ flows[t].run = run
    /\ flows[t].alone
    /\ flows[t].read_ok
    /\ flows[t].saved
    /\ flows[t].data.modalidad = mode
    /\ flows[t].data.outcome.puntos_obtenidos = puntos

C13_SwordThenAxe ==
    \E t1, t2 \in Testers :
        /\ C13_Recorded(t1, 1, "Sword", 20)
        /\ C13_Recorded(t2, 2, "Axe", 15)
        /\ flows[t1].data.jugador_id = flows[t2].data.jugador_id

C13_Scenario ==
    C13_SwordThenAxe =>
        \E t1, t2 \in Testers :
            /\ C13_Recorded(t1, 1, "Sword", 20)
            /\ C13_Recorded(t2, 2, "Axe", 15)
            /\ LET row == jugadores[flows[t1].data.jugador_id]
               IN /\ row.puntos_por_modalidad = [m \in {"Sword", "Axe"} |->
                                                   IF m = "Sword" THEN 20 ELSE 15]
                  /\ row.tier_por_modalidad = [m \in {"Sword", "Axe"} |->
                                                 IF m = "Sword"
                                                 THEN flows[t1].data.outcome.tier_nuevo
                                                 ELSE flows[t2].data.outcome.tier_nuevo]
                  /\ row.puntos_totales = Some(35)

C20_UpsertNeverCollides ==
    \A t \in Testers :
        flows[t].pc = "done" => flows[t].error # "unique_violation"

-----------------------------------------------------------------------------
\* The resultados table on its own: add_resultado and delete_tester_resultados
\* called directly, next to writes of the other two tables.

\* The dict handed to add_resultado. `keys` holds which of the two identifier
\* keys the dict has; the value of a key is None or an identifier, and a key
\* the dict lacks has no value.
ResultadoKeys == {"jugador_id", "tester_id"}

ResultadoDicts ==
    {d \in [keys : SUBSET ResultadoKeys,
            jugador_id : {Null} \cup {Some(p) : p \in RecordPlayers},
            tester_id : {Null} \cup {Some(t) : t \in Testers}] :
        /\ "jugador_id" \notin d.keys => IsNull(d.jugador_id)
        /\ "tester_id" \notin d.keys => IsNull(d.tester_id)}

\* resultado_data['jugador_id'] or resultado_data['tester_id'] raises KeyError.
RaisesKeyError(resultado_data) == ResultadoKeys \ resultado_data.keys # {}

\* jugador_id and tester_id are NOT NULL columns.
ViolatesNotNull(resultado_data) ==
    IsNull(resultado_data.jugador_id) \/ IsNull(resultado_data.tester_id)

\* The other columns of the inserted row, read with .get().
ResultadoRecord(jugador_id, tester_id) ==
    [jugador_id |-> jugador_id, tester_id |-> tester_id, modalidad |-> "Sword",
     outcome |-> [tier_nuevo |-> "LT4", puntos_obtenidos |-> 20]]

\* add_resultado reading both identifiers with a default and inserting into
\* columns that accept it.
AddResultadoDefaultIds(table, id, resultado_data, outcome) ==
    IF outcome # "ok"
    THEN [table |-> table, ret |-> FALSE]
    ELSE [table |-> AddResultadoStmt(table, id,
                        ResultadoRecord(OrZero(resultado_data.jugador_id),
                                        IF IsNull(resultado_data.tester_id)
                                        THEN ""
                                        ELSE Val(resultado_data.tester_id))),
          ret |-> TRUE]

\* add_resultado: the table after the call and the value returned.
AddResultadoResult(table, id, resultado_data, outcome) ==
    IF \/ outcome # "ok"
       \/ RaisesKeyError(resultado_data)
       \/ ViolatesNotNull(resultado_data)
    THEN [table |-> table, ret |-> FALSE]
    ELSE [table |-> AddResultadoStmt(table, id,
                        ResultadoRecord(Val(resultado_data.jugador_id),
                                        Val(resultado_data.tester_id))),
          ret |-> TRUE]

\* `runs` is the SERIAL sequence of resultados.id.
AddResultado(resultado_data) ==
    /\ runs < MaxRuns
    /\ \E outcome \in DbOutcomes :
          LET res == AddResultadoResult(resultados, runs + 1, resultado_data, outcome)
          IN /\ resultados' = res.table
             /\ runs' = IF res.ret THEN runs + 1 ELSE runs
             /\ response' = [op |-> "add_resultado", args |-> resultado_data,
                             ret |-> res.ret]
    /\ UNCHANGED <<jugadores, cooldowns, now, flows>>

\* DELETE FROM resultados, with no WHERE clause.
DeleteEveryResultadoStmt(table, tester_id) == SubSeq(table, 1, 0)

\* DELETE FROM resultados WHERE tester_id = %s.
DeleteTesterStmt(table, tester_id) ==
    LET Kept(row) == row.tester_id # tester_id
    IN SelectSeq(table, Kept)

DeleteTesterResultados(tester_id) ==
    /\ \E outcome \in DbOutcomes :
          IF outcome = "ok"
          THEN /\ resultados' = DeleteTesterStmt(resultados, tester_id)
               /\ response' = [op |-> "delete_tester_resultados", tester_id |-> tester_id,
                               ok |-> TRUE,
                               ret |-> Len(resultados)
                                          - Len(DeleteTesterStmt(resultados, tester_id))]
          ELSE /\ resultados' = resultados
               /\ response' = [op |-> "delete_tester_resultados", tester_id |-> tester_id,
                               ok |-> FALSE, ret |-> 0]
    /\ UNCHANGED <<jugadores, cooldowns, now, flows, runs>>

\* The one Player record and the one cooldown written next to the results.
OtherJugadorData ==
    [discord_id |-> 1, tier_por_modalidad |-> << >>, puntos_por_modalidad |-> << >>,
     puntos_totales |-> Some(0)]

InitResultados ==
    /\ jugadores = << >>
    /\ resultados = << >>
    /\ cooldowns = {}
    /\ now = 0
    /\ response = NoResponse
    /\ flows = NoFlows
    /\ runs = 0

NextResultados ==
    \/ \E resultado_data \in ResultadoDicts : AddResultado(resultado_data)
    \/ \E tester_id \in Testers : DeleteTesterResultados(tester_id)
    \/ SaveOrUpdateJugador(OtherJugadorData)
    \/ SaveCooldown(1, "Sword", Null, Null)

SpecResultados == InitResultados /\ [][NextResultados]_vars

\* C16: add_resultado with a dict that lacks the player or the tester
\* identifier, or holds None for it, returns False and leaves the rows of
\* resultados exactly as they were.
C16_LacksId(resultado_data) ==
    \/ "jugador_id" \notin resultado_data.keys
    \/ "tester_id" \notin resultado_data.keys
    \/ resultado_data.jugador_id = Null
    \/ resultado_data.tester_id = Null

C16_AddStep ==
    (response'.op = "add_resultado" /\ C16_LacksId(response'.args))
    => /\ response'.ret = FALSE
       /\ resultados' = resultados

C16_MissingIdRejected == [][C16_AddStep]_vars

C16_Witness ==
    /\ response.op = "add_resultado"
    /\ "tester_id" \notin response.args.keys
    /\ response.args.jugador_id # Null
    /\ response.ret = FALSE
    /\ Len(resultados) = 1

\* C17: delete_tester_resultados(t) removes exactly the rows of tester t,
\* returns how many it removed and leaves the other testers' rows, the players
\* and the cooldowns as they were; no other operation changes or removes a
\* stored row of resultados.
C17_RowsOf(table, tester_id) ==
    {i \in 1..Len(table) : table[i].tester_id = tester_id}

C17_Rows(table) == {table[i] : i \in 1..Len(table)}

C17_Step ==
    /\ (response'.op = "delete_tester_resultados" /\ response'.ok)
       => /\ C17_Rows(resultados')
                = {resultados[i] : i \in (1..Len(resultados))
                                        \ C17_RowsOf(resultados, response'.tester_id)}
          /\ Len(resultados')
                = Len(resultados) - Cardinality(C17_RowsOf(resultados, response'.tester_id))
          /\ response'.ret = Cardinality(C17_RowsOf(resultados, response'.tester_id))
          /\ jugadores' = jugadores
          /\ cooldowns' = cooldowns
    /\ ~(response'.op = "delete_tester_resultados" /\ response'.ok)
       => /\ Len(resultados') >= Len(resultados)
          /\ SubSeq(resultados', 1, Len(resultados)) = resultados

C17_OnlyTesterDeleteRemoves == [][C17_Step]_vars

C17_Witness ==
    /\ response.op = "delete_tester_resultados"
    /\ response.ok
    /\ response.ret = 1
    /\ Len(resultados) = 1
    /\ DOMAIN jugadores # {}
    /\ cooldowns # {}

====
